---- MODULE Spec2Model ----
(***************************************************************************)
(* Model of src/comptime/src/lib.rs: the sparse array (SparseArray<T>),    *)
(* its construction (create, create_packed), its binary-search lookup      *)
(* (get), its Noir text form (to_noir_string) and the ordering engine      *)
(* (sort_advanced, get_shuffle_indices, quicksort, partition).             *)
(*                                                                         *)
(* Arrays are TLA+ sequences; the source's 0-based position i is element   *)
(* i + 1 of the sequence, and every loop variable keeps its 0-based value. *)
(***************************************************************************)
EXTENDS Integers, Sequences, FiniteSets, TLC

(***************************************************************************)
(* FieldElement = BigUint (lib.rs:7): an unbounded natural number kept as  *)
(* a vector of digits.  The model keeps two digits <<hi, lo>> in base      *)
(* 65536, value hi * 65536 + lo, with lo < 65536 and hi any natural        *)
(* number below 2^31: every value below 2^47.                              *)
(***************************************************************************)
Base == 65536

From(n) == <<n \div Base, n % Base>>

Lt(a, b) == a[1] < b[1] \/ (a[1] = b[1] /\ a[2] < b[2])

Le(a, b) == a = b \/ Lt(a, b)

Gt(a, b) == Lt(b, a)

Ge(a, b) == Le(b, a)

\* a - 1 for a # 0, a + 1
Pred(a) == IF a[2] > 0 THEN <<a[1], a[2] - 1>> ELSE <<a[1] - 1, Base - 1>>

Succ(a) == IF a[2] < Base - 1 THEN <<a[1], a[2] + 1>> ELSE <<a[1] + 1, 0>>

FAdd(a, b) == <<a[1] + b[1] + ((a[2] + b[2]) \div Base), (a[2] + b[2]) % Base>>

\* the product of two field elements whose product is below 2^31
FMul(a, b) == From((a[1] * Base + a[2]) * (b[1] * Base + b[2]))

(***************************************************************************)
(* Bounds of the model.                                                    *)
(***************************************************************************)
\* FIELD_MODULUS is the 254-bit prime of lib.rs:9-13; the model scales it to
\* ModulusHi * 65536 + 7, above every key the tests and the packer build.
ModulusHi == 131072

\* the longest key list create and sort_advanced are given
MaxLen == 3

\* the keys drawn are 0..MaxKey, FIELD_MODULUS - 1 and FIELD_MODULUS
MaxKey == 1

FIELD_MODULUS == <<ModulusHi, 7>>

\* T::default() for the numeric value types the tests use
Default == 0

(***************************************************************************)
(* Ordering engine: partition, quicksort_recursive, quicksort.             *)
(***************************************************************************)
swap(arr, a, b) == [arr EXCEPT ![a + 1] = arr[b + 1], ![b + 1] = arr[a + 1]]

\* the comparison closure |a, b| a < b handed to quicksort by sort_advanced
compare(a, b) == Lt(a, b)

RECURSIVE partition_loop(_, _, _, _)
partition_loop(arr, j, high, i) ==
    IF j >= high THEN [arr |-> arr, i |-> i]
    ELSE IF compare(arr[j + 1], arr[high + 1])
         THEN partition_loop(swap(arr, i, j), j + 1, high, i + 1)
         ELSE partition_loop(arr, j + 1, high, i)

partition(arr, low, high) ==
    LET r == partition_loop(arr, low, high, low)
    IN  [arr |-> swap(r.arr, r.i, high), pivot_index |-> r.i]

RECURSIVE quicksort_recursive(_, _, _)
quicksort_recursive(arr, low, high) ==
    IF low < high
    THEN LET p  == partition(arr, low, high)
             a1 == IF p.pivot_index > 0
                   THEN quicksort_recursive(p.arr, low, p.pivot_index - 1)
                   ELSE p.arr
         IN  IF p.pivot_index < high
             THEN quicksort_recursive(a1, p.pivot_index + 1, high)
             ELSE a1
    ELSE arr

quicksort(arr) ==
    IF Len(arr) > 1 THEN quicksort_recursive(arr, 0, Len(arr) - 1) ELSE arr

(***************************************************************************)
(* get_shuffle_indices: for each position i of lhs, the first position j   *)
(* of rhs not yet claimed that holds an equal value.                       *)
(***************************************************************************)
\* a slip: a position of rhs that is already claimed is claimed again
shuffle_match_unmasked(lhs, rhs, i, j, st) ==
    ~st.found /\ lhs[i + 1] = rhs[j + 1]

\* line 259: position i of lhs claims position j of rhs
shuffle_match(lhs, rhs, i, j, st) ==
    ~st.mask[j + 1] /\ ~st.found /\ lhs[i + 1] = rhs[j + 1]

RECURSIVE shuffle_inner(_, _, _, _, _)
shuffle_inner(lhs, rhs, i, j, st) ==
    IF j >= Len(lhs) THEN st
    ELSE IF shuffle_match(lhs, rhs, i, j, st)
         THEN shuffle_inner(lhs, rhs, i, j + 1,
                  [found   |-> TRUE,
                   indices |-> [st.indices EXCEPT ![i + 1] = j],
                   mask    |-> [st.mask EXCEPT ![j + 1] = TRUE]])
         ELSE shuffle_inner(lhs, rhs, i, j + 1, st)

RECURSIVE shuffle_outer(_, _, _, _)
shuffle_outer(lhs, rhs, i, st) ==
    IF i >= Len(lhs) THEN [panic |-> "", shuffle_indices |-> st.indices]
    ELSE LET r == shuffle_inner(lhs, rhs, i, 0, [st EXCEPT !.found = FALSE])
         IN  IF ~r.found
             THEN [panic |-> "Arrays do not contain equivalent values",
                   shuffle_indices |-> r.indices]
             ELSE shuffle_outer(lhs, rhs, i + 1, r)

\* a slip: rhs is scanned from its end, so position i of lhs claims the last
\* position of rhs not yet claimed that holds an equal value
get_shuffle_indices_from_end(lhs, rhs) ==
    LET n        == Len(lhs)
        reversed == [k \in 1..n |-> rhs[n + 1 - k]]
        r        == shuffle_outer(lhs, reversed, 0,
                        [found   |-> FALSE,
                         indices |-> [k \in 1..n |-> 0],
                         mask    |-> [k \in 1..n |-> FALSE]])
    IN  [panic |-> r.panic,
         shuffle_indices |-> [k \in 1..n |-> n - 1 - r.shuffle_indices[k]]]

get_shuffle_indices(lhs, rhs) ==
    shuffle_outer(lhs, rhs, 0,
        [found   |-> FALSE,
         indices |-> [k \in 1..Len(lhs) |-> 0],
         mask    |-> [k \in 1..Len(lhs) |-> FALSE]])

(***************************************************************************)
(* sort_advanced.  On an empty input sorted.len() - 1 underflows: a panic  *)
(* in a debug build, and in a release build the loop then reads sorted[1], *)
(* a panic too.                                                            *)
(***************************************************************************)
sort_advanced(input) ==
    LET sorted == quicksort(input)
        sh     == get_shuffle_indices(input, sorted)
    IN  IF sh.panic # ""
        THEN [panic |-> sh.panic, sorted |-> sorted, sort_indices |-> sh.shuffle_indices]
        ELSE IF Len(sorted) = 0
        THEN [panic |-> "index out of bounds", sorted |-> sorted,
              sort_indices |-> sh.shuffle_indices]
        ELSE IF \E i \in 0..(Len(sorted) - 2) : Lt(sorted[i + 2], sorted[i + 1])
        THEN [panic |-> "Array not properly sorted", sorted |-> sorted,
              sort_indices |-> sh.shuffle_indices]
        ELSE [panic |-> "", sorted |-> sorted, sort_indices |-> sh.shuffle_indices]

(***************************************************************************)
(* SparseArray::create.  The result is a record: panic is the message of   *)
(* the assertion (or arithmetic or indexing failure) that ended the call,  *)
(* "" when the call returned the table (keys, values, maximum).            *)
(***************************************************************************)
\* a slip: the value lands in the slot of the key before
value_slot_before(j) == j + 1

\* line 79: the slot of values for the key at sorted position j
value_slot(j) == j + 2

RECURSIVE populate(_, _, _, _)
populate(vals, sort_indices, in_vals, i) ==
    IF i >= Len(in_vals) THEN vals
    ELSE populate([vals EXCEPT ![value_slot(sort_indices[i + 1]) + 1] = in_vals[i + 1]],
                  sort_indices, in_vals, i + 1)

\* lines 85-91: the value stored for the sentinel key 0
initial_value(ks, vs) == IF ks[1] = From(0) THEN vs[1] ELSE Default

\* lines 93-99: the value stored for the sentinel key maximum
final_value(ks, vs, max) == IF ks[Len(ks)] = max THEN vs[Len(ks)] ELSE Default

\* lines 101-107: the three boundary assertions, in order
boundary_checks(sorted, max) ==
    IF ~Lt(sorted[1], FIELD_MODULUS) THEN "Key exceeds field modulus"
    ELSE IF ~Lt(max, FIELD_MODULUS) THEN "Maximum exceeds field modulus"
    ELSE IF ~Ge(max, sorted[Len(sorted)]) THEN "Key exceeds maximum"
    ELSE ""

\* a slip: the size itself is kept as the maximum
maximum_is_size(size) == size

\* line 60: maximum = size - 1
maximum_of(size) == Pred(size)

Failed(msg) == [panic |-> msg, keys |-> <<>>, values |-> <<>>, maximum |-> From(0)]

create(ks, vs, size) ==
    LET n == Len(ks)
    IN  IF n # Len(vs) THEN Failed("Keys and values must have the same length")
        ELSE IF size = From(0) THEN Failed("attempt to subtract with overflow")
        ELSE
        LET max    == maximum_of(size)
            sorted == sort_advanced(ks)
        IN  IF sorted.panic # "" THEN Failed(sorted.panic)
            ELSE
            LET rkeys == <<From(0)>> \o sorted.sorted \o <<max>>
                v0    == [k \in 1..(n + 3) |-> Default]
                v1    == populate(v0, sorted.sort_indices, vs, 0)
                v2    == [v1 EXCEPT ![0 + 1] = Default]
                v3    == [v2 EXCEPT ![1 + 1] = initial_value(ks, vs)]
                v4    == [v3 EXCEPT ![n + 2 + 1] = final_value(ks, vs, max)]
                chk   == boundary_checks(sorted.sorted, max)
            IN  IF chk # "" THEN Failed(chk)
                ELSE [panic |-> "", keys |-> rkeys, values |-> v4, maximum |-> max]

(***************************************************************************)
(* SparseArray::create_packed.  T is a numeric type (From<u32>, Add, Mul,  *)
(* PartialOrd); its values are natural numbers below 2^31 here.            *)
(***************************************************************************)
\* the byte range of the dual encoding: `i < 256`, `T::from(256)`,
\* `FieldElement::from(256u32)` (lines 130, 139, 144)
ByteRange == 256

\* BigUint::to_u32_digits: the base-2^32 digits, none for zero and one for a
\* value below 2^32 (the values of the model are below 2^31)
to_u32_digits(v) == IF v = 0 THEN <<>> ELSE <<v>>

\* lines 120-135: the largest value and the non-zero entries.  An iteration on
\* a zero entry changes nothing (neither `table[i] > max_value` nor
\* `table[i] != T::from(0)` holds), so the loop steps from one non-zero entry
\* to the next.
RECURSIVE collect(_, _, _)
collect(table, from, st) ==
    LET rest == {k \in from..(Len(table) - 1) : table[k + 1] # 0}
    IN  IF rest = {} THEN st
        ELSE
        LET i  == CHOOSE k \in rest : \A m \in rest : k <= m
            t  == table[i + 1]
            s1 == IF t > st.max_value THEN [st EXCEPT !.max_value = t] ELSE st
            s2 == IF t # 0
                  THEN [s1 EXCEPT !.keys   = Append(@, From(i)),
                                  !.values = Append(@, t)]
                  ELSE s1
            s3 == IF t # 0 /\ i < ByteRange
                  THEN [s2 EXCEPT !.small_keys   = Append(@, From(i)),
                                  !.small_values = Append(@, t)]
                  ELSE s2
        IN  collect(table, i + 1, s3)

\* lines 147-153: the first position k with keys[k] = target_key, -1 if none
RECURSIVE find_key(_, _, _)
find_key(ks, target_key, k) ==
    IF k >= Len(ks) THEN -1
    ELSE IF ks[k + 1] = target_key THEN k
    ELSE find_key(ks, target_key, k + 1)

\* a slip: a colliding contribution replaces the entry
accumulate_overwrite(old, target_value) == target_value

\* line 149: a colliding contribution is added to the entry
accumulate(old, target_value) == old + target_value

\* lines 142-159: the loop over j for one small key
RECURSIVE combine_inner(_, _, _, _, _)
combine_inner(st, small_key, target_value, j, bound) ==
    IF j >= bound THEN st
    ELSE
    LET target_key == FAdd(FMul(From(j), From(ByteRange)), small_key)
        k          == find_key(st.keys, target_key, 0)
    IN  combine_inner(
            IF k >= 0
            THEN [st EXCEPT !.values[k + 1] = accumulate(@, target_value)]
            ELSE [st EXCEPT !.keys   = Append(@, target_key),
                            !.values = Append(@, target_value)],
            small_key, target_value, j + 1, bound)

\* lines 138-160: the loop over the small keys
RECURSIVE combine(_, _)
combine(st, i) ==
    IF st.panic # "" \/ i >= Len(st.small_keys) THEN st
    ELSE
    LET digits == to_u32_digits(st.max_value)
    IN  IF Len(digits) = 0
        THEN [st EXCEPT !.panic = "index out of bounds"]
        ELSE combine(combine_inner(st, st.small_keys[i + 1],
                                   st.small_values[i + 1] * ByteRange, 0, digits[1]),
                     i + 1)

\* the (keys, values) lists create_packed hands to create
packed_entries(table) ==
    combine(collect(table, 0,
                [panic |-> "", max_value |-> Default, keys |-> <<>>, values |-> <<>>,
                 small_keys |-> <<>>, small_values |-> <<>>]), 0)

create_packed(table, max_size) ==
    LET e == packed_entries(table)
    IN  IF e.panic # "" THEN Failed(e.panic)
        ELSE create(e.keys, e.values, From(max_size))

(***************************************************************************)
(* SparseArray::to_noir_string.  A field element is written by             *)
(* format!("0x{:08x}"): lowercase hexadecimal, at least 8 digits.          *)
(***************************************************************************)
HexChar == <<"0", "1", "2", "3", "4", "5", "6", "7",
             "8", "9", "a", "b", "c", "d", "e", "f">>

RECURSIVE HexDigits(_)
HexDigits(n) == IF n < 16 THEN HexChar[n + 1]
                ELSE HexDigits(n \div 16) \o HexChar[(n % 16) + 1]

RECURSIVE DecDigits(_)
DecDigits(n) == IF n < 10 THEN HexChar[n + 1]
                ELSE DecDigits(n \div 10) \o HexChar[(n % 10) + 1]

RECURSIVE PadZero(_, _)
PadZero(s, width) == IF Len(s) >= width THEN s ELSE PadZero("0" \o s, width)

\* format!("0x{:08x}", k) for a FieldElement k
FieldHex(k) ==
    "0x" \o PadZero(IF k[1] = 0 THEN HexDigits(k[2])
                    ELSE HexDigits(k[1]) \o PadZero(HexDigits(k[2]), 4), 8)

\* format!("0x{:08x}", v.to_string().parse::<u32>().unwrap()) for a value v
ValueHex(v) == "0x" \o PadZero(HexDigits(v), 8)

\* .collect::<Vec<_>>().join(", ")
RECURSIVE Join(_, _)
Join(strs, i) ==
    IF i >= Len(strs) THEN ""
    ELSE IF i = Len(strs) - 1 THEN strs[i + 1]
    ELSE strs[i + 1] \o ", " \o Join(strs, i + 1)

\* a slip: the sentinels are counted
table_length_stored(ks) == Len(ks)

\* line 189: self.keys.len() - 2
table_length(ks) == Len(ks) - 2

\* generic_name is an Option<&str>: <<>> is None, <<s>> is Some(s)
to_noir_string(ks, vals, max, generic_name) ==
    LET keys_str   == Join([i \in 1..Len(ks) |-> FieldHex(ks[i])], 0)
        values_str == Join([i \in 1..Len(vals) |-> ValueHex(vals[i])], 0)
        name       == IF Len(generic_name) = 0 THEN "Field" ELSE generic_name[1]
    IN  "SparseArray<" \o DecDigits(table_length(ks)) \o ", " \o name
        \o "> = SparseArray {\n    keys: [" \o keys_str
        \o "],\n    values: [" \o values_str
        \o "],\n    maximum: " \o FieldHex(max) \o "\n};"

(***************************************************************************)
(* SparseArray::get, one operator per part of the body.                    *)
(***************************************************************************)
InBounds(arr, i) == 0 <= i /\ i < Len(arr)

OutOfBounds == "index out of bounds"

\* lines 203-208: the early return for index > maximum, else the first bounds
get_enter(ks, vals, max, idx) ==
    IF Gt(idx, max)
    THEN IF InBounds(vals, 0)
         THEN [pc |-> "returned", panic |-> "", ret |-> vals[0 + 1], left |-> 0, right |-> 0]
         ELSE [pc |-> "panicked", panic |-> OutOfBounds, ret |-> -1, left |-> 0, right |-> 0]
    ELSE IF Len(ks) = 0
         THEN [pc |-> "panicked", panic |-> "attempt to subtract with overflow",
               ret |-> -1, left |-> 0, right |-> 0]
         ELSE [pc |-> "search", panic |-> "", ret |-> -1, left |-> 0, right |-> Len(ks) - 1]

\* a slip: the loop goes on while left < right
get_continue_adjacent(l, r) == l < r

\* line 210: the loop condition
get_continue(l, r) == l + 1 < r

\* line 211
get_mid(l, r) == (l + r) \div 2

\* a slip: the comparison is strict
get_narrow_strict(ks, idx, l, r) ==
    LET mid == get_mid(l, r)
    IN  IF ~InBounds(ks, mid) THEN [panic |-> OutOfBounds, left |-> l, right |-> r]
        ELSE IF Lt(ks[mid + 1], idx) THEN [panic |-> "", left |-> mid, right |-> r]
        ELSE [panic |-> "", left |-> l, right |-> mid]

\* lines 211-216: one iteration of the loop
get_narrow(ks, idx, l, r) ==
    LET mid == get_mid(l, r)
    IN  IF ~InBounds(ks, mid) THEN [panic |-> OutOfBounds, left |-> l, right |-> r]
        ELSE IF Le(ks[mid + 1], idx) THEN [panic |-> "", left |-> mid, right |-> r]
        ELSE [panic |-> "", left |-> l, right |-> mid]

\* a slip: the value at left is returned without the exact-match test
get_select_nearest(ks, vals, idx, l) ==
    IF InBounds(vals, l + 1)
    THEN [panic |-> "", ret |-> vals[l + 1 + 1]]
    ELSE [panic |-> OutOfBounds, ret |-> -1]

\* lines 221-226: the value returned once the loop has ended
get_select(ks, vals, idx, l) ==
    IF ~InBounds(ks, l) THEN [panic |-> OutOfBounds, ret |-> -1]
    ELSE IF ks[l + 1] = idx
         THEN IF InBounds(vals, l + 1)
              THEN [panic |-> "", ret |-> vals[l + 1 + 1]]
              ELSE [panic |-> OutOfBounds, ret |-> -1]
         ELSE IF InBounds(vals, 0)
              THEN [panic |-> "", ret |-> vals[0 + 1]]
              ELSE [panic |-> OutOfBounds, ret |-> -1]

(***************************************************************************)
(* The inputs the model draws.                                             *)
(***************************************************************************)
\* the longest short dense table, and the largest entry of a dense table
MaxTableLen == 2

MaxTableVal == 2

KeySet == {From(k) : k \in 0..MaxKey} \cup {Pred(FIELD_MODULUS), FIELD_MODULUS}

SizeSet == {From(k) : k \in 0..(MaxKey + 1)} \cup {FIELD_MODULUS, Succ(FIELD_MODULUS)}

KeyLists == UNION {[1..n -> KeySet] : n \in 0..MaxLen}

\* values of the length of the keys, each the default or a value that names its
\* position, or values of another length (their content then plays no part:
\* the length assertion comes first)
ValueLists(n) ==
    {[i \in 1..n |-> IF i \in S THEN i ELSE Default] : S \in SUBSET (1..n)}
    \cup {[i \in 1..m |-> Default] : m \in (0..MaxLen) \ {n}}

\* the inputs of test_sparse_lookup, of test_sparse_lookup_boundary_cases and
\* test_sparse_array_noir_representation (4294967295 = 65535 * 65536 + 65535),
\* and of test_sparse_lookup_overflow
TestInputs ==
    { [keys |-> <<From(1), From(99), From(7), From(5)>>,
       values |-> <<123, 101112, 789, 456>>, size |-> From(100)],
      [keys |-> <<From(0), From(99999), From(7), <<65535, 65535>> >>,
       values |-> <<123, 101112, 789, 456>>, size |-> <<65536, 0>>],
      [keys |-> <<From(1), From(5), From(7), From(99999)>>,
       values |-> <<123, 456, 789, 101112>>, size |-> Succ(FIELD_MODULUS)] }

CreateInputs ==
    TestInputs \cup
    UNION { { [keys |-> ks, values |-> vs, size |-> sz] :
                vs \in ValueLists(Len(ks)), sz \in SizeSet } : ks \in KeyLists }

\* dense tables: every short table, and tables two entries longer than the
\* byte range whose entries are zero but for the first two and the last two
WideTable(a, b, c, d) ==
    [i \in 1..(ByteRange + 2) |->
        IF i = 1 THEN a ELSE IF i = 2 THEN b
        ELSE IF i = ByteRange + 1 THEN c ELSE IF i = ByteRange + 2 THEN d ELSE 0]

PackedTables ==
    UNION {[1..n -> 0..MaxTableVal] : n \in 0..MaxTableLen}
    \cup {WideTable(a, b, c, d) : a \in 0..MaxTableVal, b \in 0..MaxTableVal,
                                  c \in 0..MaxTableVal, d \in 0..MaxTableVal}

PackedSizes == {0, 2, ByteRange, ByteRange + 2, ByteRange * MaxTableVal + 2}

GenericNames == {<<>>, <<"u32">>}

(***************************************************************************)
(* State.                                                                  *)
(***************************************************************************)
VARIABLES
    pc,          \* "start", "ready", "search", "returned", "emitted", "sorted", "panicked"
    call,        \* the function called last: "create", "create_packed", "sort_advanced",
                 \* "get", "to_noir_string"
    made_by,     \* the constructor called: "create" or "create_packed"
    panic,       \* the message of the failure that ended the last call, or ""
    in_keys,     \* create's keys argument (sort_advanced's input)
    in_values,   \* create's values argument
    in_size,     \* create's size argument
    table,       \* create_packed's table argument
    max_size,    \* create_packed's max_size argument
    keys,        \* SparseArray.keys
    values,      \* SparseArray.values
    maximum,     \* SparseArray.maximum
    sort_result, \* the SortResult of sort_advanced
    index,       \* get's index argument
    left,        \* get's left
    right,       \* get's right
    ret,         \* the value get returned, -1 before
    generic_name,\* to_noir_string's generic_name argument
    noir_str     \* the text to_noir_string returned

vars == <<pc, call, made_by, panic, in_keys, in_values, in_size, table, max_size, keys,
          values, maximum, sort_result, index, left, right, ret, generic_name, noir_str>>

NoSort == [panic |-> "", sorted |-> <<>>, sort_indices |-> <<>>]

Init ==
    /\ pc = "start"
    /\ call = ""
    /\ made_by = ""
    /\ panic = ""
    /\ in_keys = <<>>
    /\ in_values = <<>>
    /\ in_size = From(0)
    /\ table = <<>>
    /\ max_size = 0
    /\ keys = <<>>
    /\ values = <<>>
    /\ maximum = From(0)
    /\ sort_result = NoSort
    /\ index = From(0)
    /\ left = 0
    /\ right = 0
    /\ ret = -1
    /\ generic_name = <<>>
    /\ noir_str = ""

\* the table a constructor returned, or its panic
Constructed(r) ==
    /\ pc' = IF r.panic = "" THEN "ready" ELSE "panicked"
    /\ panic' = r.panic
    /\ keys' = r.keys
    /\ values' = r.values
    /\ maximum' = r.maximum

Create ==
    /\ pc = "start"
    /\ \E inp \in CreateInputs :
        /\ in_keys' = inp.keys
        /\ in_values' = inp.values
        /\ in_size' = inp.size
        /\ Constructed(create(inp.keys, inp.values, inp.size))
    /\ call' = "create"
    /\ made_by' = "create"
    /\ UNCHANGED <<table, max_size, sort_result, index, left, right, ret,
                   generic_name, noir_str>>

CreatePacked ==
    /\ pc = "start"
    /\ \E t \in PackedTables, m \in PackedSizes :
        /\ table' = t
        /\ max_size' = m
        /\ in_keys' = packed_entries(t).keys
        /\ in_values' = packed_entries(t).values
        /\ in_size' = From(m)
        /\ Constructed(create_packed(t, m))
    /\ call' = "create_packed"
    /\ made_by' = "create_packed"
    /\ UNCHANGED <<sort_result, index, left, right, ret, generic_name, noir_str>>

SortAdvanced ==
    /\ pc = "start"
    /\ \E input \in KeyLists :
        /\ in_keys' = input
        /\ sort_result' = sort_advanced(input)
        /\ panic' = sort_advanced(input).panic
        /\ pc' = IF sort_advanced(input).panic = "" THEN "sorted" ELSE "panicked"
    /\ call' = "sort_advanced"
    /\ UNCHANGED <<made_by, in_values, in_size, table, max_size, keys, values, maximum,
                   index, left, right, ret, generic_name, noir_str>>

\* the indices looked up: the low ones, those around the modulus, and every
\* stored key with its two neighbours
GetIndices ==
    {From(k) : k \in 0..(MaxKey + 2)}
    \cup {Pred(FIELD_MODULUS), FIELD_MODULUS}
    \cup {keys[i] : i \in 1..Len(keys)}
    \cup {Succ(keys[i]) : i \in 1..Len(keys)}
    \cup {Pred(keys[i]) : i \in {j \in 1..Len(keys) : keys[j] # From(0)}}

GetBegin ==
    /\ pc \in {"ready", "returned"}
    /\ \E idx \in GetIndices :
        LET r == get_enter(keys, values, maximum, idx)
        IN  /\ index' = idx
            /\ pc' = r.pc
            /\ panic' = r.panic
            /\ ret' = r.ret
            /\ left' = r.left
            /\ right' = r.right
    /\ call' = "get"
    /\ UNCHANGED <<made_by, in_keys, in_values, in_size, table, max_size, keys, values,
                   maximum, sort_result, generic_name, noir_str>>

GetLoop ==
    /\ pc = "search"
    /\ get_continue(left, right)
    /\ LET r == get_narrow(keys, index, left, right)
       IN  /\ left' = r.left
           /\ right' = r.right
           /\ panic' = r.panic
           /\ pc' = IF r.panic = "" THEN "search" ELSE "panicked"
    /\ UNCHANGED <<call, made_by, in_keys, in_values, in_size, table, max_size, keys,
                   values, maximum, sort_result, index, ret, generic_name, noir_str>>

GetReturn ==
    /\ pc = "search"
    /\ ~get_continue(left, right)
    /\ LET r == get_select(keys, values, index, left)
       IN  /\ ret' = r.ret
           /\ panic' = r.panic
           /\ pc' = IF r.panic = "" THEN "returned" ELSE "panicked"
    /\ UNCHANGED <<call, made_by, in_keys, in_values, in_size, table, max_size, keys,
                   values, maximum, sort_result, index, left, right, generic_name,
                   noir_str>>

ToNoirString ==
    /\ pc = "ready"
    /\ \E name \in GenericNames :
        /\ generic_name' = name
        /\ noir_str' = to_noir_string(keys, values, maximum, name)
    /\ pc' = "emitted"
    /\ call' = "to_noir_string"
    /\ UNCHANGED <<made_by, panic, in_keys, in_values, in_size, table, max_size, keys,
                   values, maximum, sort_result, index, left, right, ret>>

Next ==
    \/ Create
    \/ CreatePacked
    \/ SortAdvanced
    \/ GetBegin
    \/ GetLoop
    \/ GetReturn
    \/ ToNoirString

Spec == Init /\ [][Next]_vars

(***************************************************************************)
(* Properties.                                                             *)
(***************************************************************************)
\* a constructor returned the table (create_packed ends in create)
Built == made_by \in {"create", "create_packed"}
         /\ pc \in {"ready", "search", "returned", "emitted"}

\* get has returned ret for index
Returned == Built /\ pc = "returned"

Positions == 1..Len(in_keys)

LastOccurrence(i) == \A j \in (i + 1)..Len(in_keys) : in_keys[j] # in_keys[i]

\* C1 as stated: get(keys[i]) = values[i] at every input position i, also when
\* the same key occurs more than once with different values.
C1_RoundTripEveryPosition ==
    Returned => \A i \in Positions : in_keys[i] = index => ret = in_values[i]

\* C1, amended: get(keys[i]) = values[i] at every input position i that is the
\* last occurrence of its key (so at every position when the keys are distinct
\* or equal keys carry equal values).
C1_RoundTripLastOccurrence ==
    Returned =>
        \A i \in Positions : in_keys[i] = index /\ LastOccurrence(i) => ret = in_values[i]

C1_Witness ==
    /\ Returned
    /\ \E i \in Positions, j \in Positions :
        /\ i < j
        /\ in_keys[i] = index
        /\ in_keys[j] = index
        /\ LastOccurrence(j)
        /\ in_values[i] # in_values[j]
        /\ ret = in_values[j]

\* C2: for an index that is not one of the original keys get returns
\* T::default(): for a hole in [0, maximum], 0 and maximum included, and for an
\* index above maximum.
C2_DefaultForAbsent ==
    Returned => ((\A i \in Positions : in_keys[i] # index) => ret = Default)

\* a hole strictly between two original keys whose values are not the default
C2_Witness ==
    /\ Returned
    /\ \A i \in Positions : in_keys[i] # index
    /\ \E i \in Positions, j \in Positions :
        /\ Lt(in_keys[i], index)
        /\ Lt(index, in_keys[j])
        /\ in_values[i] # Default
        /\ in_values[j] # Default
    /\ ret = Default

\* create was called on keys and values of equal length and a size of at least
\* 1 (so that maximum = size - 1 is a field element), and has ended
CreateEnded == call = "create" /\ Len(in_keys) = Len(in_values) /\ in_size # From(0)

AnyBoundViolated ==
    \/ \E i \in Positions : Ge(in_keys[i], FIELD_MODULUS)
    \/ Ge(Pred(in_size), FIELD_MODULUS)
    \/ \E i \in Positions : Lt(Pred(in_size), in_keys[i])

AllBoundsSatisfied ==
    /\ \A i \in Positions : Lt(in_keys[i], FIELD_MODULUS)
    /\ Lt(Pred(in_size), FIELD_MODULUS)
    /\ \A i \in Positions : Ge(Pred(in_size), in_keys[i])

\* C3: create fails fatally whenever a key >= P, or maximum >= P, or maximum is
\* below the largest key, and returns a table whenever every key < P,
\* maximum < P and maximum >= the largest key.
C3_BoundEnforcement ==
    CreateEnded =>
        /\ AnyBoundViolated => pc = "panicked"
        /\ AllBoundsSatisfied => pc = "ready"

\* C3 on the key lists that are not empty: here create keeps the bounds as
\* stated.
C3_BoundEnforcementNonEmpty ==
    CreateEnded /\ Len(in_keys) > 0 =>
        /\ AnyBoundViolated => pc = "panicked"
        /\ AllBoundsSatisfied => pc = "ready"

\* C4: if 0 is an original key, values[1] (the slot of the sentinel key 0) is
\* the value paired with that key; if maximum is an original key, values[n + 2]
\* (the slot of the sentinel key maximum) is the value paired with that key;
\* wherever the key stands in the input.
C4_SentinelCorrectness ==
    Built =>
        /\ (\E i \in Positions : in_keys[i] = From(0))
            => \E i \in Positions : in_keys[i] = From(0) /\ values[1 + 1] = in_values[i]
        /\ (\E i \in Positions : in_keys[i] = maximum)
            => \E i \in Positions :
                    in_keys[i] = maximum /\ values[Len(in_keys) + 2 + 1] = in_values[i]

\* C4 where the code keeps it: the key 0 stands first in the input, the key
\* maximum stands last.
C4_SentinelFirstAndLast ==
    Built =>
        /\ in_keys[1] = From(0) => values[1 + 1] = in_values[1]
        /\ in_keys[Len(in_keys)] = maximum
            => values[Len(in_keys) + 2 + 1] = in_values[Len(in_keys)]

\* get ended in a failed slice access (or a failed subtraction)
GetFailed == call = "get" /\ pc = "panicked"

\* C5: get is total: no access keys[mid], keys[left], values[left + 1],
\* values[0] is out of bounds, every iteration of the loop strictly shrinks
\* right - left, and a lookup that entered the loop returns.
C5_LookupTotal ==
    /\ [](~GetFailed)
    /\ [][GetLoop => (right' - left' < right - left)]_vars
    /\ (pc = "search") ~> (pc = "returned")

\* a lookup of a stored key that ran the loop up to the last but one position
C5_Witness ==
    /\ Returned
    /\ Len(keys) >= 5
    /\ left = Len(keys) - 2
    /\ keys[left + 1] = index
    /\ ret = values[left + 1 + 1]

\* the loop of get runs on: each of its steps is taken when it can be
FairSpec == Spec /\ WF_vars(GetLoop) /\ WF_vars(GetReturn)

\* get has returned ret for index on a table create_packed built
PackedReturned == Returned /\ made_by = "create_packed"

\* the largest value of the dense table
LargestValue ==
    IF Len(table) = 0 THEN 0
    ELSE CHOOSE v \in {table[i] : i \in 1..Len(table)} :
            \A i \in 1..Len(table) : table[i] <= v

\* the direct entry of key K: t[K] if K < len(t) and t[K] # 0
DirectEntry(K) ==
    LET at == {i \in 0..(Len(table) - 1) : From(i) = K /\ table[i + 1] # 0}
    IN  IF at = {} THEN 0 ELSE table[(CHOOSE i \in at : TRUE) + 1]

\* the pairs (i, j) with i < 256, t[i] # 0, 0 <= j < m and j * 256 + i = K
Contributors(K) ==
    {p \in (0..(Len(table) - 1)) \X (0..(LargestValue - 1)) :
        /\ p[1] < ByteRange
        /\ table[p[1] + 1] # 0
        /\ From(p[2] * ByteRange + p[1]) = K}

RECURSIVE SumOfContributions(_)
SumOfContributions(ps) ==
    IF ps = {} THEN 0
    ELSE LET p == CHOOSE q \in ps : TRUE
         IN  ByteRange * table[p[1] + 1] + SumOfContributions(ps \ {p})

Emitted == Built /\ pc = "emitted"

\* the strings strs[1..n] with ", " between them
RECURSIVE CommaList(_, _)
CommaList(strs, n) ==
    IF n = 0 THEN ""
    ELSE IF n = 1 THEN strs[1]
    ELSE CommaList(strs, n - 1) \o ", " \o strs[n]

TypeName == IF generic_name = <<>> THEN "Field" ELSE generic_name[1]

\* 'SparseArray<N, TypeName> = SparseArray { keys: [...], values: [...],
\* maximum: ... };' with N = n, every stored key and every stored value in
\* stored order
TemplateText ==
    "SparseArray<" \o DecDigits(Len(in_keys)) \o ", " \o TypeName
    \o "> = SparseArray {\n    keys: ["
    \o CommaList([i \in 1..Len(keys) |-> FieldHex(keys[i])], Len(in_keys) + 2)
    \o "],\n    values: ["
    \o CommaList([i \in 1..Len(values) |-> ValueHex(values[i])], Len(in_keys) + 3)
    \o "],\n    maximum: " \o FieldHex(maximum) \o "\n};"

\* the table of test_sparse_array_noir_representation, written with no type name
Fixture ==
    /\ in_keys = <<From(0), From(99999), From(7), <<65535, 65535>> >>
    /\ in_values = <<123, 101112, 789, 456>>
    /\ in_size = <<65536, 0>>
    /\ generic_name = <<>>

FixtureLists ==
    "    keys: [0x00000000, 0x00000000, 0x00000007, 0x0001869f, 0xffffffff, 0xffffffff],\n"
    \o "    values: [0x00000000, 0x0000007b, 0x0000007b, 0x00000315, 0x00018af8, "
    \o "0x000001c8, 0x000001c8],\n"
    \o "    maximum: 0xffffffff\n"

Occurrences(seq, from, to, k) == Cardinality({i \in from..to : seq[i] = k})

\* C8: the stored keys are [0] ++ (the input keys sorted ascending) ++ [maximum]:
\* n + 2 keys, non-decreasing over the whole length, keys[0] = 0,
\* keys[last] = maximum = size - 1; values has n + 3 slots and
\* values[0] = T::default().
C8_KeySequence ==
    Built =>
        LET n == Len(in_keys)
        IN  /\ Len(keys) = n + 2
            /\ keys[1] = From(0)
            /\ keys[n + 2] = maximum
            /\ Succ(maximum) = in_size
            /\ \A k \in {in_keys[i] : i \in 1..n} \cup {keys[i] : i \in 2..(n + 1)} :
                    Occurrences(in_keys, 1, n, k) = Occurrences(keys, 2, n + 1, k)
            /\ \A i \in 1..(n + 1) : Le(keys[i], keys[i + 1])
            /\ Len(values) = n + 3
            /\ values[1] = Default

\* an input of at least three keys, out of order and with a repeated key
C8_Witness ==
    /\ Built
    /\ Len(in_keys) >= 3
    /\ \E i \in Positions, j \in Positions : i < j /\ Lt(in_keys[j], in_keys[i])
    /\ \E i \in Positions, j \in Positions : i < j /\ in_keys[i] = in_keys[j]
    /\ Lt(keys[Len(keys) - 1], maximum)

\* sort_advanced was called on a key list that is not empty
SortCalled == call = "sort_advanced" /\ Len(in_keys) > 0

\* C9: on a non-empty input sort_advanced returns (sorted, sort_indices) with
\* sort_indices a bijection on 0..n-1 and sorted[sort_indices[i]] = input[i];
\* neither assertion is triggered.
C9_SortPermutation ==
    SortCalled =>
        LET n  == Len(in_keys)
            si == sort_result.sort_indices
        IN  /\ pc = "sorted"
            /\ sort_result.panic = ""
            /\ Len(sort_result.sorted) = n
            /\ Len(si) = n
            /\ \A i \in 1..n : si[i] \in 0..(n - 1)
            /\ \A i \in 1..n, j \in 1..n : si[i] = si[j] => i = j
            /\ \A j \in 0..(n - 1) : \E i \in 1..n : si[i] = j
            /\ \A i \in 1..n : sort_result.sorted[si[i] + 1] = in_keys[i]

\* an input of three keys, out of order and with a repeated key
C9_Witness ==
    /\ SortCalled
    /\ pc = "sorted"
    /\ Len(in_keys) = 3
    /\ \E i \in Positions, j \in Positions : i < j /\ Lt(in_keys[j], in_keys[i])
    /\ \E i \in Positions, j \in Positions : i < j /\ in_keys[i] = in_keys[j]

\* get has returned after its loop: index <= maximum
SearchReturned == Returned /\ Le(index, maximum)

\* left is the greatest position p of 0..last with keys[p] <= index
GreatestUpTo(last) ==
    /\ left \in 0..last
    /\ Le(keys[left + 1], index)
    /\ \A p \in 0..last : Le(keys[p + 1], index) => p <= left

ReturnsSlotOfLeft ==
    ret = IF keys[left + 1] = index THEN values[left + 1 + 1] ELSE values[0 + 1]

\* C10 as stated: when the loop ends left is the greatest position of the whole
\* keys sequence (0..n+1, both sentinels included) with keys[left] <= index.
C10_GreatestOfAllPositions ==
    SearchReturned => GreatestUpTo(Len(in_keys) + 1) /\ ReturnsSlotOfLeft

\* C10, amended: left is the greatest position of 0..n (the trailing sentinel
\* at n + 1 left out) with keys[left] <= index, and get returns
\* values[left + 1] if keys[left] = index and values[0] otherwise.
C10_GreatestBelowTrailingSentinel ==
    SearchReturned => GreatestUpTo(Len(in_keys)) /\ ReturnsSlotOfLeft

\* a lookup of maximum: the trailing sentinel matches too, left stops before it
C10_Witness ==
    /\ SearchReturned
    /\ index = maximum
    /\ left = Len(in_keys)
    /\ Le(keys[Len(in_keys) + 1 + 1], index)
    /\ Len(in_keys) >= 3

\* the input positions i1 < i2 that hold the same key
EqualKeyPairs ==
    {p \in Positions \X Positions : p[1] < p[2] /\ in_keys[p[1]] = in_keys[p[2]]}

\* the last input position that holds the key k
LastPositionOf(k) ==
    CHOOSE i \in Positions : in_keys[i] = k /\ LastOccurrence(i)

\* C11: duplicate keys, last occurrence wins: sort_advanced gives equal input
\* keys sorted positions in increasing order of their input position
\* (sort_indices[i1] < sort_indices[i2] for i1 < i2 with keys[i1] = keys[i2]),
\* and for a key k that occurs several times in the input of create, get(k)
\* returns the value paired with the last occurrence of k in input order.
C11_LastOccurrenceWins ==
    /\ SortCalled =>
            \A p \in EqualKeyPairs :
                sort_result.sort_indices[p[1]] < sort_result.sort_indices[p[2]]
    /\ Returned =>
            ((\E p \in EqualKeyPairs : in_keys[p[1]] = index)
                => ret = in_values[LastPositionOf(index)])

\* a lookup of a key that stands first and last in an input of three keys, a
\* greater key between them, with different values at its two occurrences
C11_Witness ==
    /\ Returned
    /\ made_by = "create"
    /\ Len(in_keys) = 3
    /\ in_keys[1] = index
    /\ in_keys[3] = index
    /\ Lt(index, in_keys[2])
    /\ in_values[1] # in_values[3]
    /\ ret = in_values[3]
    /\ sort_advanced(in_keys).sort_indices = <<0, 2, 1>>

====
